---- MODULE Spec2Model ----
(***************************************************************************)
(* Conversation engine of the chat client (src/components/ChatInterface.tsx). *)
(* The React component's state is the state of the machine; every event     *)
(* handler, together with the effects React runs after it (session sync,    *)
(* save to localStorage), is one atomic action.  The continuations of the  *)
(* async handlers (one per awaited provider result) are separate actions.   *)
(*                                                                         *)
(* Strings are sequences of one-character strings, so that trim, slice,     *)
(* startsWith, includes and replace are computed as JavaScript computes     *)
(* them.  Ids are the numbers Date.now() returns: toString() is injective   *)
(* on them and ids are only ever compared for equality.                     *)
(***************************************************************************)
EXTENDS Integers, Sequences, FiniteSets, TLC

VARIABLES
    messages,          \* useState<Message[]>            (line 53)
    sessions,          \* useState<ChatSession[]>        (line 54)
    currentSessionId,  \* useState<string | null>        (line 55)
    inputValue,        \* useState("")                   (line 58)
    selectedImage,     \* useState<File | null>          (line 59)
    imagePreview,      \* useState<string | null>        (line 60)
    selectedTextFile,  \* useState<{name, content}|null> (line 61)
    isStreaming,       \* useState(false)                (line 63)
    config,            \* useState<ChatConfig>           (line 67)
    now,               \* the value Date.now() returns
    storage,           \* localStorage['gemini_chat_sessions']
    calls,             \* provider calls awaited by suspended handlers
    encodings,         \* fileToBase64 calls awaited by handleImageSelect
    created,           \* history: the number of sessions created so far
    started            \* history: the number of turns started so far

vars == <<messages, sessions, currentSessionId, inputValue, selectedImage,
          imagePreview, selectedTextFile, isStreaming, config, now, storage,
          calls, encodings, created, started>>

-----------------------------------------------------------------------------
(* Bounds of the model. *)

\* the clock stops advancing at MaxClock
MaxClock == 3
\* at most MaxSessions sessions are ever created
MaxSessions == 2
\* at most MaxTurns turns are ever started
MaxTurns == 2
\* a provider stream delivers at most MaxChunks chunks before it ends or fails
MaxChunks == 2

-----------------------------------------------------------------------------
(* JavaScript values and string operations. *)

\* null and undefined (both falsy; the code never tells them apart)
Null == "null"

\* the characters String.prototype.trim removes, among those the model uses
WhiteSpace == {" ", "\n"}

RECURSIVE TrimStart(_)
TrimStart(s) ==
    IF s # <<>> /\ Head(s) \in WhiteSpace THEN TrimStart(Tail(s)) ELSE s

RECURSIVE TrimEnd(_)
TrimEnd(s) ==
    IF s # <<>> /\ s[Len(s)] \in WhiteSpace
    THEN TrimEnd(SubSeq(s, 1, Len(s) - 1))
    ELSE s

\* s.trim()
Trim(s) == TrimEnd(TrimStart(s))

\* s.startsWith(p)
StartsWith(s, p) == Len(s) >= Len(p) /\ SubSeq(s, 1, Len(p)) = p

\* the 1-based positions at which p occurs in s
Occurrences(s, p) ==
    {i \in 1..(Len(s) - Len(p) + 1) : SubSeq(s, i, i + Len(p) - 1) = p}

\* s.includes(p)
Includes(s, p) == Occurrences(s, p) # {}

Min(S) == CHOOSE x \in S : \A y \in S : x <= y

\* a faulty variant: every occurrence is replaced
RECURSIVE ReplaceAll(_, _, _)
ReplaceAll(s, p, r) ==
    IF ~Includes(s, p) THEN s
    ELSE LET i == Min(Occurrences(s, p))
         IN  SubSeq(s, 1, i - 1) \o r
                \o ReplaceAll(SubSeq(s, i + Len(p), Len(s)), p, r)

\* s.replace(p, r) with a string pattern: the first occurrence only
ReplaceFirst(s, p, r) ==
    IF ~Includes(s, p) THEN s
    ELSE LET i == Min(Occurrences(s, p))
         IN  SubSeq(s, 1, i - 1) \o r \o SubSeq(s, i + Len(p), Len(s))

\* a faulty variant: the text is not cut
SliceTo_Whole(s, n) == s

\* s.slice(0, n)
SliceTo(s, n) == SubSeq(s, 1, IF Len(s) < n THEN Len(s) ELSE n)

-----------------------------------------------------------------------------
(* String literals of the source. *)

\* 'New Chat' (ChatInterface.tsx line 167)
NewChatTitle == <<"N","e","w"," ","C","h","a","t">>
\* 'Generate image:' (ChatInterface.tsx line 437)
GenerateImagePrefix == <<"G","e","n","e","r","a","t","e"," ","i","m","a","g","e",":">>
\* 'Generating image...' (ChatInterface.tsx line 363)
GeneratingImageText == <<"G","e","n","e","r","a","t","i","n","g"," ","i","m","a","g","e",".",".",".">>
\* 'Generated image for: "' (ChatInterface.tsx line 376)
GeneratedImageForOpen == <<"G","e","n","e","r","a","t","e","d"," ","i","m","a","g","e"," ","f","o","r",":"," ","\"">>
\* '"' (ChatInterface.tsx line 376)
GeneratedImageForClose == <<"\"">>
\* 'Error generating image: ' (ChatInterface.tsx line 382)
ErrorGeneratingImagePrefix == <<"E","r","r","o","r"," ","g","e","n","e","r","a","t","i","n","g"," ","i","m","a","g","e",":"," ">>
\* 'Error: ' (ChatInterface.tsx line 329)
ErrorPrefix == <<"E","r","r","o","r",":"," ">>
\* 'Unknown error' (ChatInterface.tsx line 319)
UnknownErrorText == <<"U","n","k","n","o","w","n"," ","e","r","r","o","r">>
\* 'API Key' (ChatInterface.tsx line 322)
ApiKeyPattern == <<"A","P","I"," ","K","e","y">>
\* '404' (ChatInterface.tsx line 324)
NotFoundPattern == <<"4","0","4">>
\* '429' (ChatInterface.tsx line 326)
RateLimitPattern == <<"4","2","9">>
\* 'API Key missing. Please add API_KEY to Vercel Environment Variables.' (ChatInterface.tsx line 323)
ApiKeyMissingText == <<"A","P","I"," ","K","e","y"," ","m","i","s","s","i","n","g","."," ","P","l","e","a","s","e"," ","a","d","d"," ","A","P","I","_","K","E","Y"," ","t","o"," ","V","e","r","c","e","l"," ","E","n","v","i","r","o","n","m","e","n","t"," ","V","a","r","i","a","b","l","e","s",".">>
\* 'Model ' (ChatInterface.tsx line 325)
ModelNotFoundOpen == <<"M","o","d","e","l"," ">>
\* ' not found or not available. Try switching models.' (ChatInterface.tsx line 325)
ModelNotFoundClose == <<" ","n","o","t"," ","f","o","u","n","d"," ","o","r"," ","n","o","t"," ","a","v","a","i","l","a","b","l","e","."," ","T","r","y"," ","s","w","i","t","c","h","i","n","g"," ","m","o","d","e","l","s",".">>
\* 'Rate limit exceeded. Please try again later.' (ChatInterface.tsx line 327)
RateLimitText == <<"R","a","t","e"," ","l","i","m","i","t"," ","e","x","c","e","e","d","e","d","."," ","P","l","e","a","s","e"," ","t","r","y"," ","a","g","a","i","n"," ","l","a","t","e","r",".">>
\* '--- Attached File: ' (ChatInterface.tsx line 398)
AttachedFileOpen == <<"-","-","-"," ","A","t","t","a","c","h","e","d"," ","F","i","l","e",":"," ">>
\* ' ---\n' (ChatInterface.tsx line 398)
AttachedFileClose == <<" ","-","-","-","\n">>
\* 'Sent file: ' (ChatInterface.tsx line 406)
SentFilePrefix == <<"S","e","n","t"," ","f","i","l","e",":"," ">>
\* '...' (ChatInterface.tsx line 119)
EllipsisMarker == <<".",".",".">>

\* title.slice(0, 30): the length a derived title is cut to (line 119)
TitleLength == 30

\* BotModel.FLASH, the default model id (line 68); its value is declared in
\* ../types, which is not part of the sources at hand
BotModelFLASH == <<"g","e","m","i","n","i","-","2",".","5","-","f","l","a","s","h">>

\* BotModel.PRO and BotModel.LITE (lines 639-640), declared in ../types as
\* well: a second id of the 2.5 series and an id outside of it
BotModelPRO == <<"g","e","m","i","n","i","-","2",".","5","-","p","r","o">>

BotModelLITE == <<"g","e","m","i","n","i","-","f","l","a","s","h","-","l","i","t","e">>

-----------------------------------------------------------------------------
(* Messages and sessions. *)

\* a Message object; an absent isStreaming or isError is FALSE, an absent
\* image is Null
Message(id, role, text, image, streaming) ==
    [id |-> id, role |-> role, text |-> text, image |-> image,
     isStreaming |-> streaming, isError |-> FALSE]

\* prev.map(msg => msg.id === id ? {...msg, text} : msg)
PatchText(msgs, id, text) ==
    [i \in DOMAIN msgs |->
        IF msgs[i].id = id THEN [msgs[i] EXCEPT !.text = text] ELSE msgs[i]]

\* prev.map(msg => msg.id === id ? {...msg, text, isStreaming: false} : msg)
PatchDone(msgs, id, text) ==
    [i \in DOMAIN msgs |->
        IF msgs[i].id = id
        THEN [msgs[i] EXCEPT !.text = text, !.isStreaming = FALSE]
        ELSE msgs[i]]

\* prev.map(msg => msg.id === id
\*                 ? {...msg, text, isError: true, isStreaming: false} : msg)
PatchError(msgs, id, text) ==
    [i \in DOMAIN msgs |->
        IF msgs[i].id = id
        THEN [msgs[i] EXCEPT !.text = text, !.isError = TRUE,
                             !.isStreaming = FALSE]
        ELSE msgs[i]]

\* prev.map(m => m.id === id ? {...m, text, image, isStreaming: false} : m)
PatchImage(msgs, id, text, image) ==
    [i \in DOMAIN msgs |->
        IF msgs[i].id = id
        THEN [msgs[i] EXCEPT !.text = text, !.image = image,
                             !.isStreaming = FALSE]
        ELSE msgs[i]]

\* the ChatSession createNewSession builds
NewSession(t) ==
    [id |-> t, title |-> NewChatTitle, messages |-> <<>>, updatedAt |-> t]

\* the indices of the user messages of a log
UserIndices(msgs) == {i \in DOMAIN msgs : msgs[i].role = "user"}

\* the title the sync effect gives a session: derived from the first user
\* message while the title is "New Chat" or empty
DeriveTitle(title, msgs) ==
    IF (title = NewChatTitle \/ title = <<>>) /\ Len(msgs) > 0
       /\ UserIndices(msgs) # {}
    THEN LET first == msgs[Min(UserIndices(msgs))].text
         IN  SliceTo(first, TitleLength)
                \o (IF Len(first) > TitleLength THEN EllipsisMarker ELSE <<>>)
    ELSE title

\* the effect on [messages, currentSessionId]: every session whose id is the
\* current one takes the message log, the derived title and the time
SyncEffect(sess, cur, msgs, t) ==
    [i \in DOMAIN sess |->
        IF sess[i].id = cur
        THEN [sess[i] EXCEPT !.messages = msgs,
                             !.title = DeriveTitle(sess[i].title, msgs),
                             !.updatedAt = t]
        ELSE sess[i]]

\* JSON.stringify of a message: a property whose value is undefined is left out
MessageToJSON(m) ==
    [k \in (IF m.image = Null THEN DOMAIN m \ {"image"} ELSE DOMAIN m) |-> m[k]]

\* the message JSON.parse gives back: a missing property reads as undefined
MessageFromJSON(j) ==
    [id |-> j.id, role |-> j.role, text |-> j.text,
     image |-> IF "image" \in DOMAIN j THEN j.image ELSE Null,
     isStreaming |-> j.isStreaming, isError |-> j.isError]

\* JSON.stringify(sessions)
ToJSON(sess) ==
    [i \in DOMAIN sess |->
        [id |-> sess[i].id, title |-> sess[i].title,
         messages |-> [k \in DOMAIN sess[i].messages |->
                          MessageToJSON(sess[i].messages[k])],
         updatedAt |-> sess[i].updatedAt]]

\* JSON.parse of a blob JSON.stringify(sessions) wrote
FromJSON(json) ==
    [i \in DOMAIN json |->
        [id |-> json[i].id, title |-> json[i].title,
         messages |-> [k \in DOMAIN json[i].messages |->
                          MessageFromJSON(json[i].messages[k])],
         updatedAt |-> json[i].updatedAt]]

\* contents of the localStorage slot: no key, an unparsable string, a string
\* JSON.parse reads as a value that is not an array (null, a number, an
\* object), or the string JSON.stringify wrote
AbsentBlob == [kind |-> "absent"]
CorruptBlob == [kind |-> "corrupt"]
ValueBlob == [kind |-> "value"]
JSONBlob(sess) == [kind |-> "json", value |-> ToJSON(sess)]

\* the load effect: the parsed list, or the initial [] when the key is
\* absent or JSON.parse throws
LoadSessions(blob) ==
    IF blob.kind = "json" THEN FromJSON(blob.value) ELSE <<>>

\* a faulty variant: a list that got shorter is not written
SaveEffect_GrowOnly(sess, blob) ==
    IF Len(sess) = 0 THEN blob
    ELSE IF blob.kind = "json" /\ Len(sess) < Len(blob.value) THEN blob
    ELSE JSONBlob(sess)

\* the save effect: writes the list unless it is empty
SaveEffect(sess, blob) ==
    IF Len(sess) > 0 THEN JSONBlob(sess) ELSE blob

\* the session list after mount: the loaded list with a new session
\* prepended by createNewSession, then synced with the empty message log
MountSessions(blob, t) ==
    SyncEffect(<<NewSession(t)>> \o LoadSessions(blob), t, <<>>, t)

\* sessions.find(s => s.id === sessionId): the index of the first match, 0
\* if there is none
FindSession(sess, sid) ==
    IF \E i \in DOMAIN sess : sess[i].id = sid
    THEN Min({i \in DOMAIN sess : sess[i].id = sid})
    ELSE 0

\* sessions.filter(s => s.id !== sessionId)
RECURSIVE FilterOut(_, _)
FilterOut(sess, sid) ==
    IF sess = <<>> THEN <<>>
    ELSE IF Head(sess).id = sid THEN FilterOut(Tail(sess), sid)
    ELSE <<Head(sess)>> \o FilterOut(Tail(sess), sid)

\* seq without its element at position i
RemoveAt(seq, i) == SubSeq(seq, 1, i - 1) \o SubSeq(seq, i + 1, Len(seq))

-----------------------------------------------------------------------------
(* Configuration and the inputs of the environment. *)

\* the initial ChatConfig; the system instruction is a fixed string that no
\* operation reads back
DefaultConfig == [model |-> BotModelFLASH, useThinking |-> FALSE]

\* thinkingBudget of the thinking configuration (line 285)
ThinkingBudget == 1024

\* a faulty variant: the budget is attached on the toggle alone
GenerationConfig_ToggleOnly(cfg) ==
    IF cfg.useThinking
    THEN {<<"thinkingBudget", ThinkingBudget>>}
    ELSE {}

\* generationConfig of processMessage, as the set of its options
GenerationConfig(cfg) ==
    IF cfg.useThinking
       /\ Includes(cfg.model, <<"g","e","m","i","n","i","-","2",".","5">>)
    THEN {<<"thinkingBudget", ThinkingBudget>>}
    ELSE {}

\* what the user types into the textbox
InputTexts == {<<>>, <<" ">>, <<"h","i">>}

\* the same without the blank text
PlainTexts == {<<>>, <<"h","i">>}

\* the image files the user can pick, and what fileToBase64 makes of them
ImageFiles == {"photo.png"}
Base64Of(file) == "base64(" \o file \o ")"

\* the text files the user can pick
TextFiles == {[name |-> <<"f">>, content |-> <<"c">>]}

\* the text of the k-th chunk of a stream: the k-th letter, or no text
Letters == <<"a", "b", "c", "d">>
ChunkTexts(k) == {<<>>, <<Letters[k]>>}

\* the images generateImageFromPrompt returns
GeneratedImages == {"generated.jpg"}

\* error.message of the failures the provider raises
ErrorMessages == {RateLimitPattern}

-----------------------------------------------------------------------------
(* The state after mount. *)

Init ==
    /\ now = 1
    /\ messages = <<>>
    /\ sessions = MountSessions(AbsentBlob, 1)
    /\ currentSessionId = 1
    /\ inputValue = <<>>
    /\ selectedImage = Null
    /\ imagePreview = Null
    /\ selectedTextFile = <<>>
    /\ isStreaming = FALSE
    /\ config = DefaultConfig
    /\ storage = SaveEffect(MountSessions(AbsentBlob, 1), AbsentBlob)
    /\ calls = <<>>
    /\ encodings = <<>>
    /\ created = 1
    /\ started = 0

-----------------------------------------------------------------------------
(* What React runs after a handler or a continuation has set state. *)

\* the sync effect runs when messages or currentSessionId changed, the save
\* effect when the session list was set (by the handler or by the sync effect)
Effects(msgs, cur, sess, syncRuns, sessionsSet) ==
    LET synced == IF syncRuns THEN SyncEffect(sess, cur, msgs, now) ELSE sess
    IN  /\ sessions' = synced
        /\ storage' = IF syncRuns \/ sessionsSet
                      THEN SaveEffect(synced, storage)
                      ELSE storage

\* history (left): every suspended turn has seen the active session change
MarkLeft(cs) == [i \in DOMAIN cs |-> [cs[i] EXCEPT !.left = TRUE]]

\* A suspended handler is a record of the call it awaits and of its local
\* variables (msgId, fullText, prompt, and the config of its render); the
\* fields chunks (what the stream has delivered), session (the session that
\* was active when the turn started) and left are history.

\* the call processMessage awaits: streamChatResponse(history, text, image,
\* config.model, config.systemInstruction, generationConfig)
ChatCall(id, text, image, history, handler) ==
    [fn |-> "streamChatResponse", handler |-> handler, msgId |-> id,
     fullText |-> <<>>, chunks |-> <<>>, text |-> text, image |-> image,
     history |-> history, model |-> config.model,
     generationConfig |-> GenerationConfig(config), prompt |-> <<>>,
     session |-> currentSessionId, left |-> FALSE]

\* the call handleGenerateImage and the image branch of handleRegenerate
\* await: generateImageFromPrompt(prompt)
ImageCall(id, prompt, handler) ==
    [fn |-> "generateImageFromPrompt", handler |-> handler, msgId |-> id,
     fullText |-> <<>>, chunks |-> <<>>, text |-> <<>>, image |-> Null,
     history |-> <<>>, model |-> config.model, generationConfig |-> {},
     prompt |-> prompt, session |-> currentSessionId, left |-> FALSE]

\* the placeholder processMessage appends
ChatPlaceholder(id) == Message(id, "model", <<>>, Null, TRUE)

\* the placeholder of an image generation
ImagePlaceholder(id) == Message(id, "model", GeneratingImageText, Null, TRUE)

-----------------------------------------------------------------------------
(* The user stages input. *)

\* onChange of the textbox: setInputValue
TypeInput(t) ==
    /\ t # inputValue
    /\ inputValue' = t
    /\ UNCHANGED <<messages, sessions, currentSessionId, selectedImage,
                   imagePreview, selectedTextFile, isStreaming, config, now,
                   storage, calls, encodings, created,
                   started>>

\* a bound of the model: at most MaxPending encodings are awaited at a time
MaxPending == 1

\* handleImageSelect up to its await: the file is selected, its encoding
\* is pending
HandleImageSelect(file) ==
    /\ Len(encodings) < MaxPending
    /\ selectedImage' = file
    /\ encodings' = Append(encodings, file)
    /\ UNCHANGED <<messages, sessions, currentSessionId, inputValue,
                   imagePreview, selectedTextFile, isStreaming, config, now,
                   storage, calls, created,
                   started>>

\* handleImageSelect after fileToBase64 resolved: the preview is set
ImageEncoded(i) ==
    /\ i \in DOMAIN encodings
    /\ imagePreview' = Base64Of(encodings[i])
    /\ encodings' = RemoveAt(encodings, i)
    /\ UNCHANGED <<messages, sessions, currentSessionId, inputValue,
                   selectedImage, selectedTextFile, isStreaming, config, now,
                   storage, calls, created,
                   started>>

\* fileToBase64 rejected: handleImageSelect has no catch, nothing is set
ImageEncodingFailed(i) ==
    /\ i \in DOMAIN encodings
    /\ encodings' = RemoveAt(encodings, i)
    /\ UNCHANGED <<messages, sessions, currentSessionId, inputValue,
                   selectedImage, imagePreview, selectedTextFile, isStreaming,
                   config, now, storage, calls, created,
                   started>>

\* the remove button of the image preview (line 856)
RemoveImage ==
    /\ imagePreview # Null
    /\ imagePreview' = Null
    /\ selectedImage' = Null
    /\ UNCHANGED <<messages, sessions, currentSessionId, inputValue,
                   selectedTextFile, isStreaming, config, now, storage, calls,
                   encodings, created,
                   started>>

\* handleTextFileSelect with file.text() resolved: the file is attached
HandleTextFileSelect(file) ==
    /\ selectedTextFile # <<file>>
    /\ selectedTextFile' = <<file>>
    /\ UNCHANGED <<messages, sessions, currentSessionId, inputValue,
                   selectedImage, imagePreview, isStreaming, config, now,
                   storage, calls, encodings, created,
                   started>>

\* the remove button of the attached text file (line 870)
RemoveTextFile ==
    /\ selectedTextFile # <<>>
    /\ selectedTextFile' = <<>>
    /\ UNCHANGED <<messages, sessions, currentSessionId, inputValue,
                   selectedImage, imagePreview, isStreaming, config, now,
                   storage, calls, encodings, created,
                   started>>

\* time passes
Tick ==
    /\ now < MaxClock
    /\ now' = now + 1
    /\ UNCHANGED <<messages, sessions, currentSessionId, inputValue,
                   selectedImage, imagePreview, selectedTextFile, isStreaming,
                   config, storage, calls, encodings, created,
                   started>>

-----------------------------------------------------------------------------
(* Session management. *)

\* createNewSession (also the "New Chat" buttons)
CreateNewSession ==
    /\ created < MaxSessions
    /\ created' = created + 1
    /\ currentSessionId' = now
    /\ messages' = <<>>
    /\ Effects(<<>>, now, <<NewSession(now)>> \o sessions, TRUE, TRUE)
    /\ calls' = MarkLeft(calls)
    /\ UNCHANGED <<inputValue, selectedImage, imagePreview, selectedTextFile,
                   isStreaming, config, now, encodings, started>>

\* a faulty variant: the lookup result is not tested, an unknown id becomes
\* the current one over an empty log
LoadSession_Unchecked(sid) ==
    LET k == FindSession(sessions, sid)
        log == IF k = 0 THEN <<>> ELSE sessions[k].messages
    IN  /\ currentSessionId' = sid
        /\ messages' = log
        /\ Effects(log, sid, sessions, sid # currentSessionId, FALSE)
        /\ calls' = IF sid # currentSessionId THEN MarkLeft(calls)
                    ELSE calls
        /\ UNCHANGED <<inputValue, selectedImage, imagePreview,
                       selectedTextFile, isStreaming, config, now,
                       encodings, created, started>>

\* loadSession(sessionId): nothing is set when the id is unknown; the sync
\* effect runs when the current id changes (the log of the current session
\* is the very array the message store holds)
LoadSession(sid) ==
    LET k == FindSession(sessions, sid)
    IN  IF k = 0
        THEN UNCHANGED vars
        ELSE /\ currentSessionId' = sid
             /\ messages' = sessions[k].messages
             /\ Effects(sessions[k].messages, sid, sessions,
                        sid # currentSessionId, FALSE)
             /\ calls' = IF sid # currentSessionId THEN MarkLeft(calls)
                         ELSE calls
             /\ UNCHANGED <<inputValue, selectedImage, imagePreview,
                            selectedTextFile, isStreaming, config, now,
                            encodings, created,
                   started>>

\* deleteSession(e, sessionId): the entry is filtered out; when it was the
\* current one, the first remaining session is loaded (looked up in the list
\* of the render the handler belongs to) or a new session is created
DeleteSession(sid) ==
    LET newSessions == FilterOut(sessions, sid)
    IN  /\ \E i \in DOMAIN sessions : sessions[i].id = sid
        /\ IF currentSessionId # sid
           THEN /\ Effects(messages, currentSessionId, newSessions, FALSE, TRUE)
                /\ UNCHANGED <<messages, currentSessionId, calls, created>>
           ELSE IF Len(newSessions) > 0
           THEN LET k == FindSession(sessions, newSessions[1].id)
                IN  /\ currentSessionId' = newSessions[1].id
                    /\ messages' = sessions[k].messages
                    /\ Effects(sessions[k].messages, newSessions[1].id,
                               newSessions, TRUE, TRUE)
                    /\ calls' = MarkLeft(calls)
                    /\ UNCHANGED created
           ELSE /\ created < MaxSessions
                /\ created' = created + 1
                /\ currentSessionId' = now
                /\ messages' = <<>>
                /\ Effects(<<>>, now, <<NewSession(now)>>, TRUE, TRUE)
                /\ calls' = MarkLeft(calls)
        /\ UNCHANGED <<inputValue, selectedImage, imagePreview,
                       selectedTextFile, isStreaming, config, now, encodings,
                       started>>

\* setSessions(parsed) followed by the updater of createNewSession,
\* prev => [newSession, ...prev] (lines 90 and 171): spreading a value that
\* is not iterable throws while React renders, and with no error boundary
\* the component is unmounted
MountThrows(blob) == blob.kind = "value"

\* the component is on the page: a session is current (null is 0 here)
Mounted == currentSessionId # 0

\* the page is loaded again: the component state is the initial one, the
\* suspended handlers are gone, the load effect reads localStorage and
\* creates a session; when the mount throws, nothing is left on the page
\* and the state is the one of an unmounted component
Restart ==
    /\ created < MaxSessions
    /\ created' = created + 1
    /\ messages' = <<>>
    /\ IF MountThrows(storage)
       THEN /\ sessions' = <<>>
            /\ currentSessionId' = 0
            /\ storage' = storage
       ELSE /\ sessions' = MountSessions(storage, now)
            /\ currentSessionId' = now
            /\ storage' = SaveEffect(MountSessions(storage, now), storage)
    /\ inputValue' = <<>>
    /\ selectedImage' = Null
    /\ imagePreview' = Null
    /\ selectedTextFile' = <<>>
    /\ isStreaming' = FALSE
    /\ config' = DefaultConfig
    /\ calls' = <<>>
    /\ encodings' = <<>>
    /\ UNCHANGED <<now, started>>

-----------------------------------------------------------------------------
(* Turns. *)

\* a faulty variant: the guard without the check of the in-flight flag
SendRejected_NoFlag ==
    Trim(inputValue) = <<>> /\ selectedImage = Null /\ selectedTextFile = <<>>

\* a faulty variant: the guard testing the text as typed, not trimmed
SendRejected_NoTrim ==
    \/ (inputValue = <<>> /\ selectedImage = Null /\ selectedTextFile = <<>>)
    \/ isStreaming

\* the guard of handleSendMessage (line 393), with no override text
SendRejected ==
    \/ (Trim(inputValue) = <<>> /\ selectedImage = Null
        /\ selectedTextFile = <<>>)
    \/ isStreaming

\* userText of handleSendMessage: the trimmed text, with the attached file's
\* name and content appended
UserText(text, file) ==
    IF file = <<>> THEN Trim(text)
    ELSE LET block == AttachedFileOpen \o file[1].name \o AttachedFileClose
                        \o file[1].content
         IN  IF Trim(text) # <<>>
             THEN Trim(text) \o <<"\n", "\n">> \o block
             ELSE block

\* a faulty variant: the log keeps the text shown for the message (line 406)
\* and the provider gets the full one
HandleSendMessage_Shown ==
    IF SendRejected
    THEN UNCHANGED vars
    ELSE LET userText == UserText(inputValue, selectedTextFile)
             shown == IF Trim(inputValue) # <<>> THEN Trim(inputValue)
                      ELSE IF selectedTextFile # <<>>
                      THEN SentFilePrefix \o selectedTextFile[1].name
                      ELSE <<>>
             userMessage == Message(now, "user", shown, imagePreview, FALSE)
             aiMessageId == now + 1
             msgs == messages \o <<userMessage, ChatPlaceholder(aiMessageId)>>
         IN  /\ started < MaxTurns
             /\ started' = started + 1
             /\ messages' = msgs
             /\ inputValue' = <<>>
             /\ selectedImage' = Null
             /\ imagePreview' = Null
             /\ selectedTextFile' = <<>>
             /\ isStreaming' = TRUE
             /\ calls' = Append(calls, ChatCall(aiMessageId, userText,
                                   imagePreview, messages, "handleSendMessage"))
             /\ Effects(msgs, currentSessionId, sessions, TRUE, FALSE)
             /\ UNCHANGED <<currentSessionId, config, now, encodings, created>>

\* handleSendMessage(): the user message with the full text, then
\* processMessage up to its first await
HandleSendMessage ==
    IF SendRejected
    THEN UNCHANGED vars
    ELSE LET userText == UserText(inputValue, selectedTextFile)
             userMessage == Message(now, "user", userText, imagePreview, FALSE)
             aiMessageId == now + 1
             msgs == messages \o <<userMessage, ChatPlaceholder(aiMessageId)>>
         IN  /\ started < MaxTurns
             /\ started' = started + 1
             /\ messages' = msgs
             /\ inputValue' = <<>>
             /\ selectedImage' = Null
             /\ imagePreview' = Null
             /\ selectedTextFile' = <<>>
             /\ isStreaming' = TRUE
             /\ calls' = Append(calls, ChatCall(aiMessageId, userText,
                                   imagePreview, messages, "handleSendMessage"))
             /\ Effects(msgs, currentSessionId, sessions, TRUE, FALSE)
             /\ UNCHANGED <<currentSessionId, config, now, encodings, created>>

\* a faulty variant: the guard without the check of the in-flight flag
GenerateRejected_NoFlag == Trim(inputValue) = <<>>

\* the guard of handleGenerateImage (line 344)
GenerateRejected == Trim(inputValue) = <<>> \/ isStreaming

\* handleGenerateImage up to its await
HandleGenerateImage ==
    IF GenerateRejected
    THEN UNCHANGED vars
    ELSE LET prompt == Trim(inputValue)
             userMsg == Message(now, "user",
                           GenerateImagePrefix \o <<" ">> \o prompt, Null, FALSE)
             botMsgId == now + 1
             msgs == messages \o <<userMsg, ImagePlaceholder(botMsgId)>>
         IN  /\ started < MaxTurns
             /\ started' = started + 1
             /\ messages' = msgs
             /\ inputValue' = <<>>
             /\ isStreaming' = TRUE
             /\ calls' = Append(calls, ImageCall(botMsgId, prompt,
                                                 "handleGenerateImage"))
             /\ Effects(msgs, currentSessionId, sessions, TRUE, FALSE)
             /\ UNCHANGED <<currentSessionId, selectedImage, imagePreview,
                            selectedTextFile, config, now, encodings,
                            created>>

\* a faulty variant: the guard without the check of the in-flight flag
RegenerateRejected_NoFlag ==
    Len(messages) = 0 \/ messages[Len(messages)].role # "model"

\* the guards of handleRegenerate (lines 423 and 426)
RegenerateRejected ==
    \/ isStreaming
    \/ Len(messages) = 0
    \/ messages[Len(messages)].role # "model"

\* a faulty variant: the user message stays in the history
HistoryForContext_Whole(newHistory) == newHistory

\* newHistory.slice(0, -1) (line 470)
HistoryForContext(newHistory) == SubSeq(newHistory, 1, Len(newHistory) - 1)

\* handleRegenerate: returns at once when a turn is in flight, the log is
\* empty or its last message is not a model message; else it removes the
\* last message and, when the new last message is a user message, re-sends it
HandleRegenerate ==
    IF RegenerateRejected
    THEN UNCHANGED vars
    ELSE LET newHistory == SubSeq(messages, 1, Len(messages) - 1)
             id == now + 1
         IN  IF newHistory = <<>> \/ newHistory[Len(newHistory)].role # "user"
             THEN /\ messages' = newHistory
                  /\ Effects(newHistory, currentSessionId, sessions, TRUE, FALSE)
                  /\ UNCHANGED <<currentSessionId, inputValue, selectedImage,
                                 imagePreview, selectedTextFile, isStreaming,
                                 config, now, calls, encodings, created,
                   started>>
             ELSE LET lastUserMessage == newHistory[Len(newHistory)]
                      asImage == StartsWith(lastUserMessage.text,
                                            GenerateImagePrefix)
                      prompt == Trim(ReplaceFirst(lastUserMessage.text,
                                                  GenerateImagePrefix, <<>>))
                      msgs == newHistory \o
                                <<IF asImage THEN ImagePlaceholder(id)
                                  ELSE ChatPlaceholder(id)>>
                      call == IF asImage
                              THEN ImageCall(id, prompt, "handleRegenerate")
                              ELSE ChatCall(id, lastUserMessage.text,
                                       lastUserMessage.image,
                                       HistoryForContext(newHistory),
                                       "handleRegenerate")
                  IN  /\ started < MaxTurns
                      /\ started' = started + 1
                      /\ messages' = msgs
                      /\ isStreaming' = TRUE
                      /\ calls' = Append(calls, call)
                      /\ Effects(msgs, currentSessionId, sessions, TRUE, FALSE)
                      /\ UNCHANGED <<currentSessionId, inputValue,
                                     selectedImage, imagePreview,
                                     selectedTextFile, config, now, encodings,
                                     created>>

\* a faulty variant: the edited message stays in the log
TruncateFrom_After(msgs, index) == SubSeq(msgs, 1, index)

\* prev.slice(0, index) (line 486), index counted from 1 here
TruncateFrom(msgs, index) == SubSeq(msgs, 1, index - 1)

\* handleEditMessage(index), index counted from 1 here
HandleEditMessage(index) ==
    /\ index \in DOMAIN messages
    /\ IF isStreaming \/ messages[index].role # "user"
       THEN UNCHANGED vars
       ELSE LET text == messages[index].text
                textToEdit == IF StartsWith(text, GenerateImagePrefix)
                              THEN Trim(ReplaceFirst(text, GenerateImagePrefix,
                                                     <<>>))
                              ELSE text
                msgs == TruncateFrom(messages, index)
            IN  /\ inputValue' = textToEdit
                /\ messages' = msgs
                /\ Effects(msgs, currentSessionId, sessions, TRUE, FALSE)
                /\ UNCHANGED <<currentSessionId, selectedImage, imagePreview,
                               selectedTextFile, isStreaming, config, now,
                               calls, encodings, created,
                   started>>

-----------------------------------------------------------------------------
(* The provider answers: the continuations of the suspended handlers. *)

\* a faulty variant: the classes tested in the reverse order
DisplayError_RateLimitFirst(message, model) ==
    LET errorMessage == IF message = <<>> THEN UnknownErrorText ELSE message
    IN  IF Includes(errorMessage, RateLimitPattern) THEN RateLimitText
        ELSE IF Includes(errorMessage, NotFoundPattern)
        THEN ModelNotFoundOpen \o model \o ModelNotFoundClose
        ELSE IF Includes(errorMessage, ApiKeyPattern) THEN ApiKeyMissingText
        ELSE ErrorPrefix \o errorMessage

\* displayError of processMessage's catch block (lines 319-330)
DisplayError(message, model) ==
    LET errorMessage == IF message = <<>> THEN UnknownErrorText ELSE message
    IN  IF Includes(errorMessage, ApiKeyPattern) THEN ApiKeyMissingText
        ELSE IF Includes(errorMessage, NotFoundPattern)
        THEN ModelNotFoundOpen \o model \o ModelNotFoundClose
        ELSE IF Includes(errorMessage, RateLimitPattern) THEN RateLimitText
        ELSE ErrorPrefix \o errorMessage

\* the error text of a failed image generation (lines 382 and 460)
ImageErrorText(message, handler) ==
    IF handler = "handleGenerateImage"
    THEN ErrorGeneratingImagePrefix \o message
    ELSE ErrorPrefix \o message

\* the caption of a generated image (lines 376 and 454)
ImageCaption(prompt) ==
    GeneratedImageForOpen \o prompt \o GeneratedImageForClose

\* a faulty variant: the chunk replaces the accumulated text
Accumulate_Replace(fullText, textChunk) == textChunk

\* fullText += textChunk (line 303)
Accumulate(fullText, textChunk) == fullText \o textChunk

\* a faulty variant: the flag is left as it is when the turn ends
FlagKept == isStreaming

\* setIsStreaming(false) of the finally blocks (lines 338, 386, 464)
FlagAfterTurn == FALSE

\* one iteration of "for await (const chunk of stream)": a chunk with text
\* extends fullText and the placeholder, a chunk without text does nothing
StreamChunk(i, chunk) ==
    /\ i \in DOMAIN calls
    /\ calls[i].fn = "streamChatResponse"
    /\ Len(calls[i].chunks) < MaxChunks
    /\ chunk \in ChunkTexts(Len(calls[i].chunks) + 1)
    /\ IF chunk # <<>>
       THEN LET fullText == Accumulate(calls[i].fullText, chunk)
                msgs == PatchText(messages, calls[i].msgId, fullText)
            IN  /\ messages' = msgs
                /\ calls' = [calls EXCEPT
                                ![i].fullText = fullText,
                                ![i].chunks = Append(calls[i].chunks, chunk)]
                /\ Effects(msgs, currentSessionId, sessions, TRUE, FALSE)
       ELSE /\ calls' = [calls EXCEPT
                            ![i].chunks = Append(calls[i].chunks, chunk)]
            /\ UNCHANGED <<messages, sessions, storage>>
    /\ UNCHANGED <<currentSessionId, inputValue, selectedImage, imagePreview,
                   selectedTextFile, isStreaming, config, now, encodings,
                   created, started>>

\* the stream is exhausted: the placeholder is finalized, the flag cleared
StreamEnd(i) ==
    /\ i \in DOMAIN calls
    /\ calls[i].fn = "streamChatResponse"
    /\ LET msgs == PatchDone(messages, calls[i].msgId, calls[i].fullText)
       IN  /\ messages' = msgs
           /\ Effects(msgs, currentSessionId, sessions, TRUE, FALSE)
    /\ isStreaming' = FlagAfterTurn
    /\ calls' = RemoveAt(calls, i)
    /\ UNCHANGED <<currentSessionId, inputValue, selectedImage, imagePreview,
                   selectedTextFile, config, now, encodings, created,
                   started>>

\* generateImageFromPrompt resolved
ImageGenerated(i, image) ==
    /\ i \in DOMAIN calls
    /\ calls[i].fn = "generateImageFromPrompt"
    /\ LET msgs == PatchImage(messages, calls[i].msgId,
                              ImageCaption(calls[i].prompt), image)
       IN  /\ messages' = msgs
           /\ Effects(msgs, currentSessionId, sessions, TRUE, FALSE)
    /\ isStreaming' = FlagAfterTurn
    /\ calls' = RemoveAt(calls, i)
    /\ UNCHANGED <<currentSessionId, inputValue, selectedImage, imagePreview,
                   selectedTextFile, config, now, encodings, created,
                   started>>

\* the awaited call, or the stream while it is consumed, throws: the catch
\* block writes the error into the placeholder, finally clears the flag
ProviderFailed(i, message) ==
    /\ i \in DOMAIN calls
    /\ LET text == IF calls[i].fn = "streamChatResponse"
                   THEN DisplayError(message, calls[i].model)
                   ELSE ImageErrorText(message, calls[i].handler)
           msgs == PatchError(messages, calls[i].msgId, text)
       IN  /\ messages' = msgs
           /\ Effects(msgs, currentSessionId, sessions, TRUE, FALSE)
    /\ isStreaming' = FlagAfterTurn
    /\ calls' = RemoveAt(calls, i)
    /\ UNCHANGED <<currentSessionId, inputValue, selectedImage, imagePreview,
                   selectedTextFile, config, now, encodings, created,
                   started>>

-----------------------------------------------------------------------------
(* The specifications. *)

\* the ids a session can be asked for: those listed, and one that is not
SessionIds == {sessions[i].id : i \in DOMAIN sessions} \cup {0}

\* the steps of the provider
ProviderStep ==
    \/ \E i \in DOMAIN calls, l \in 1..Len(Letters) :
          StreamChunk(i, <<Letters[l]>>)
    \/ \E i \in DOMAIN calls : StreamChunk(i, <<>>)
    \/ \E i \in DOMAIN calls : StreamEnd(i)
    \/ \E i \in DOMAIN calls, g \in GeneratedImages : ImageGenerated(i, g)
    \/ \E i \in DOMAIN calls, e \in ErrorMessages : ProviderFailed(i, e)

\* the operations on sessions
SessionStep ==
    \/ CreateNewSession
    \/ \E sid \in SessionIds : LoadSession(sid)
    \/ \E sid \in SessionIds : DeleteSession(sid)
    \/ Restart

\* the operations on turns
TurnStep ==
    \/ HandleSendMessage
    \/ HandleGenerateImage
    \/ HandleRegenerate
    \/ \E k \in DOMAIN messages : HandleEditMessage(k)

\* the user picks and removes attachments
AttachStep ==
    \/ \E f \in ImageFiles : HandleImageSelect(f)
    \/ \E i \in DOMAIN encodings : ImageEncoded(i)
    \/ \E i \in DOMAIN encodings : ImageEncodingFailed(i)
    \/ RemoveImage
    \/ \E f \in TextFiles : HandleTextFileSelect(f)
    \/ RemoveTextFile

\* The engine: sessions, turns, the provider and the clock, with text input
\* that is empty or not.
Next ==
    \/ \E t \in PlainTexts : TypeInput(t)
    \/ Tick
    \/ SessionStep
    \/ TurnStep
    \/ ProviderStep

Spec == Init /\ [][Next]_vars

\* the provider ends the i-th outstanding call: the stream is exhausted, the
\* image is returned, or the call fails
ProviderFinishes ==
    \E i \in DOMAIN calls :
        \/ StreamEnd(i)
        \/ \E g \in GeneratedImages : ImageGenerated(i, g)
        \/ \E e \in ErrorMessages : ProviderFailed(i, e)

\* The engine with a provider whose streams are finite: an outstanding call
\* eventually ends or fails, and the continuation of the handler that awaits
\* it is run.
LiveSpec == Spec /\ WF_vars(ProviderFinishes)

\* The input side of a turn: every staged text and attachment, the turns and
\* the provider, within the session created at mount and within one reading
\* of the clock.
NextInput ==
    \/ \E t \in InputTexts : TypeInput(t)
    \/ AttachStep
    \/ TurnStep
    \/ ProviderStep

SpecInput == Init /\ [][NextInput]_vars

\* a bound of the model: a failure description is made of at most MaxParts
\* parts
MaxParts == 3

\* the parts of a failure description: the three patterns the catch block
\* looks for, and a text that is none of them
DescriptionParts == {ApiKeyPattern, NotFoundPattern, RateLimitPattern, <<"x">>}

\* the descriptions made of n parts
RECURSIVE DescriptionsOf(_)
DescriptionsOf(n) ==
    IF n = 0 THEN {<<>>}
    ELSE {d \o p : d \in DescriptionsOf(n - 1), p \in DescriptionParts}

\* error.message of the failures the provider raises, every class of them
\* and every combination of classes
FailureDescriptions == UNION {DescriptionsOf(n) : n \in 0..MaxParts}

\* Chat turns that fail, in the session created at mount, with every failure
\* description.
NextErrors ==
    \/ \E t \in PlainTexts : TypeInput(t)
    \/ Tick
    \/ HandleSendMessage
    \/ \E i \in DOMAIN calls, d \in FailureDescriptions : ProviderFailed(i, d)

SpecErrors == Init /\ [][NextErrors]_vars

\* the entry of localStorage is removed or rewritten from outside the
\* component (site data cleared, another page of the origin, a failed write)
StorageOverwritten(blob) ==
    /\ storage # blob
    /\ storage' = blob
    /\ UNCHANGED <<messages, sessions, currentSessionId, inputValue,
                   selectedImage, imagePreview, selectedTextFile, isStreaming,
                   config, now, calls, encodings, created, started>>

\* The program over a store it does not own: turns are taken, the entry is
\* removed or rewritten, the page is loaded again.
NextStorage ==
    \/ Mounted /\ \E t \in PlainTexts : TypeInput(t)
    \/ Mounted /\ HandleSendMessage
    \/ Mounted /\ ProviderStep
    \/ Tick
    \/ Restart
    \/ \E blob \in {AbsentBlob, CorruptBlob, ValueBlob} :
          StorageOverwritten(blob)

SpecStorage == Init /\ [][NextStorage]_vars

\* a conversation an earlier run of the program left in localStorage: a user
\* message with an image, sent at time 1, and its completed answer
StoredConversation ==
    <<Message(1, "user", <<"h", "i">>, Base64Of("photo.png"), FALSE),
      Message(2, "model", <<"a">>, Null, FALSE)>>

StoredSession ==
    [id |-> 1, title |-> <<"h", "i">>, messages |-> StoredConversation,
     updatedAt |-> 1]

\* the state after mount, at time 3, over the session list of the earlier
\* run
InitRestored ==
    /\ now = 3
    /\ messages = <<>>
    /\ sessions = MountSessions(JSONBlob(<<StoredSession>>), 3)
    /\ currentSessionId = 3
    /\ inputValue = <<>>
    /\ selectedImage = Null
    /\ imagePreview = Null
    /\ selectedTextFile = <<>>
    /\ isStreaming = FALSE
    /\ config = DefaultConfig
    /\ storage = SaveEffect(MountSessions(JSONBlob(<<StoredSession>>), 3),
                            JSONBlob(<<StoredSession>>))
    /\ calls = <<>>
    /\ encodings = <<>>
    /\ created = 1
    /\ started = 0

\* Turns on a restored conversation: its session is loaded, and messages
\* are sent, regenerated and edited in it.
NextRestored ==
    \/ \E t \in PlainTexts : TypeInput(t)
    \/ \E sid \in SessionIds : LoadSession(sid)
    \/ TurnStep
    \/ ProviderStep

SpecRestored == InitRestored /\ [][NextRestored]_vars

\* a text of n characters, its characters telling their positions apart
TextOf(n) == [i \in 1..n |-> Letters[(i % Len(Letters)) + 1]]

\* what the user types where titles are derived: nothing, a short text, a
\* text of exactly the length a title is cut to, and a longer one
TitleTexts == {<<>>, TextOf(2), TextOf(TitleLength), TextOf(TitleLength + 1)}

\* Sessions and their titles: texts of every length are sent, edited and
\* sent again, and sessions are created.
NextTitles ==
    \/ \E t \in TitleTexts : TypeInput(t)
    \/ Tick
    \/ CreateNewSession
    \/ HandleSendMessage
    \/ \E k \in DOMAIN messages : HandleEditMessage(k)
    \/ \E i \in DOMAIN calls : StreamEnd(i)

SpecTitles == Init /\ [][NextTitles]_vars

-----------------------------------------------------------------------------
(* Notions the properties below share. *)

\* every message log the program holds: the message store and the stored logs
StoredLogs == {messages} \cup {sessions[i].messages : i \in DOMAIN sessions}

\* the positions of the streaming messages and of the model messages of a log
StreamingIn(log) == {i \in DOMAIN log : log[i].isStreaming}
ModelIn(log) == {i \in DOMAIN log : log[i].role = "model"}

Max(S) == CHOOSE x \in S : \A y \in S : x >= y

\* no two sessions share an id and no two messages of a log share an id
DistinctIds ==
    /\ \A i, j \in DOMAIN sessions :
          sessions[i].id = sessions[j].id => i = j
    /\ \A log \in StoredLogs : \A i, j \in DOMAIN log :
          log[i].id = log[j].id => i = j

\* the stored logs of the session a turn was started in
LogsOf(sess, sid) == {sess[i].messages : i \in {k \in DOMAIN sess : sess[k].id = sid}}

-----------------------------------------------------------------------------
(* C1 *)

\* C1: in every reachable state each message log (the message store and
\* every stored session log) holds at most one message with isStreaming =
\* TRUE, and if there is one it is the last model message of that log.
\* Stated for the states in which ids are distinct, where a patch by id
\* reaches one message only.
C1_OneStreamingPerLog ==
    DistinctIds =>
        \A log \in StoredLogs :
            /\ Cardinality(StreamingIn(log)) <= 1
            /\ \A i \in StreamingIn(log) : i = Max(ModelIn(log))

-----------------------------------------------------------------------------
(* C2 *)

\* C2: at most one provider call (streamChatResponse or
\* generateImageFromPrompt) is outstanding at any time, and while one is
\* outstanding the in-flight flag is set.
C2_OneCallOutstanding ==
    /\ Len(calls) <= 1
    /\ calls # <<>> => isStreaming

\* a second turn, an image generation, is in flight after a first one ended
C2_Witness ==
    /\ started = 2
    /\ Len(calls) = 1
    /\ calls[1].handler = "handleGenerateImage"
    /\ isStreaming

-----------------------------------------------------------------------------
(* C3 *)

\* C3: a send while a turn is in flight changes nothing: the message log,
\* the staged text and attachments, the session list and its persisted copy,
\* the flag and the outstanding calls are the same after it (nothing is
\* queued: no call is added for it).
C3_RejectedSendChangesNothing ==
    [][(isStreaming /\ HandleSendMessage) =>
          UNCHANGED <<messages, inputValue, selectedImage, imagePreview,
                      selectedTextFile, sessions, storage, isStreaming,
                      calls>>]_vars

\* a turn is in flight while text, an image and a file are staged and a
\* further turn could still be started: the state a send is rejected in,
\* which is also the state it leaves
C3_Witness ==
    /\ isStreaming
    /\ Trim(inputValue) # <<>>
    /\ selectedImage # Null
    /\ imagePreview # Null
    /\ selectedTextFile # <<>>
    /\ started < MaxTurns

-----------------------------------------------------------------------------
(* C4 *)

\* C4: a send with empty or whitespace-only text, no image and no file is a
\* no-op: the message log is unchanged (no placeholder), the in-flight flag
\* keeps its value and no provider call is made.
C4_EmptySendIsNoOp ==
    [][(/\ Trim(inputValue) = <<>>
        /\ selectedImage = Null
        /\ imagePreview = Null
        /\ selectedTextFile = <<>>
        /\ HandleSendMessage) =>
          UNCHANGED <<messages, sessions, storage, isStreaming, calls>>]_vars

\* whitespace is staged, nothing is attached, no turn is in flight and a
\* turn could still be started: the state an empty send is rejected in
C4_Witness ==
    /\ inputValue = <<" ">>
    /\ selectedImage = Null
    /\ imagePreview = Null
    /\ selectedTextFile = <<>>
    /\ ~isStreaming
    /\ Len(messages) = 2
    /\ started < MaxTurns

-----------------------------------------------------------------------------
(* C5 *)

\* the texts of a sequence of chunks, one after the other
RECURSIVE Concat(_)
Concat(chunks) ==
    IF chunks = <<>> THEN <<>> ELSE Head(chunks) \o Concat(Tail(chunks))

IsPrefix(s, t) == Len(s) <= Len(t) /\ SubSeq(t, 1, Len(s)) = s

\* the chat turns whose session has been the active one since they started
ActiveChatCalls ==
    {i \in DOMAIN calls : calls[i].fn = "streamChatResponse" /\ ~calls[i].left}

\* C5: an accepted send appends the user message and one empty streaming
\* model placeholder to the log; while the session stays active, after every
\* chunk the placeholder (still the last message) holds the in-order
\* concatenation of the chunk texts received so far, which extends its
\* previous text, with isStreaming true; when the stream is exhausted it
\* holds the concatenation of all chunks with isStreaming false and isError
\* not set.
C5_PlaceholderAccumulatesChunks ==
    [][/\ (HandleSendMessage /\ ~SendRejected) =>
            /\ Len(messages') = Len(messages) + 2
            /\ SubSeq(messages', 1, Len(messages)) = messages
            /\ messages'[Len(messages) + 1].role = "user"
            /\ messages'[Len(messages) + 2] =
                    [id |-> calls'[Len(calls')].msgId, role |-> "model",
                     text |-> <<>>, image |-> Null, isStreaming |-> TRUE,
                     isError |-> FALSE]
       /\ \A i \in ActiveChatCalls :
            /\ (\E chunk \in ChunkTexts(Len(calls[i].chunks) + 1) :
                    StreamChunk(i, chunk)) =>
                  /\ Len(messages') = Len(messages)
                  /\ messages'[Len(messages')].id = calls[i].msgId
                  /\ messages'[Len(messages')].text = Concat(calls'[i].chunks)
                  /\ IsPrefix(messages[Len(messages)].text,
                              messages'[Len(messages')].text)
                  /\ messages'[Len(messages')].isStreaming
                  /\ ~messages'[Len(messages')].isError
            /\ StreamEnd(i) =>
                  /\ Len(messages') = Len(messages)
                  /\ messages'[Len(messages')].id = calls[i].msgId
                  /\ messages'[Len(messages')].text = Concat(calls[i].chunks)
                  /\ ~messages'[Len(messages')].isStreaming
                  /\ ~messages'[Len(messages')].isError
      ]_vars

\* the only session there has been holds a turn that received two chunks
\* with text and was completed
C5_Witness ==
    /\ created = 1
    /\ started = 1
    /\ calls = <<>>
    /\ Len(messages) = 2
    /\ messages[2].text = <<"a", "b">>
    /\ ~messages[2].isStreaming
    /\ ~messages[2].isError

-----------------------------------------------------------------------------
(* C6 *)

\* the messages of the stored logs of session sid that carry the id of a
\* turn's placeholder
PlaceholdersOf(sess, sid, msgId) ==
    UNION {{log[k] : k \in {j \in DOMAIN log : /\ log[j].id = msgId
                                                /\ log[j].role = "model"}} :
           log \in LogsOf(sess, sid)}

\* C6: when the provider fails, whether at the start of the call or in the
\* middle of the stream, the failure is handled by the turn: its placeholder
\* in the log of the session it was started in ends with isError true,
\* isStreaming false and an error text; and no message of any log ever has
\* isError and isStreaming both true.
C6_FailureEndsInError ==
    [][/\ \A i \in DOMAIN calls :
            (\E message \in ErrorMessages : ProviderFailed(i, message)) =>
                \A m \in PlaceholdersOf(sessions', calls[i].session,
                                        calls[i].msgId) :
                    m.isError /\ ~m.isStreaming /\ m.text # <<>>
       /\ \A log \in StoredLogs' : \A k \in DOMAIN log :
            ~(log[k].isError /\ log[k].isStreaming)
      ]_vars

-----------------------------------------------------------------------------
(* C9 *)

\* C9: once the user has switched to another session, or created one, while
\* a chat turn was streaming, the turn still writes to the stored log of the
\* session it was started in: after a chunk with text its placeholder there
\* holds the accumulated text, after the end of the stream it holds the full
\* text with isStreaming false, after a failure it is an error with
\* isStreaming false.
C9_SwitchedTurnWritesToOrigin ==
    [][\A i \in DOMAIN calls :
          (calls[i].left /\ calls[i].fn = "streamChatResponse") =>
            /\ (\E chunk \in ChunkTexts(Len(calls[i].chunks) + 1) \ {<<>>} :
                    StreamChunk(i, chunk)) =>
                  \A m \in PlaceholdersOf(sessions', calls[i].session,
                                          calls[i].msgId) :
                      m.text = calls'[i].fullText
            /\ StreamEnd(i) =>
                  \A m \in PlaceholdersOf(sessions', calls[i].session,
                                          calls[i].msgId) :
                      m.text = calls[i].fullText /\ ~m.isStreaming
            /\ (\E message \in ErrorMessages : ProviderFailed(i, message)) =>
                  \A m \in PlaceholdersOf(sessions', calls[i].session,
                                          calls[i].msgId) :
                      m.isError /\ ~m.isStreaming
      ]_vars

-----------------------------------------------------------------------------
(* C10 *)

\* the provider answers the i-th outstanding call
AnswerOf(i) ==
    \/ \E chunk \in ChunkTexts(Len(calls[i].chunks) + 1) : StreamChunk(i, chunk)
    \/ StreamEnd(i)
    \/ \E image \in GeneratedImages : ImageGenerated(i, image)
    \/ \E message \in ErrorMessages : ProviderFailed(i, message)

\* C10: a chunk, the completion and the failure of a turn leave the messages
\* of every session other than the one the turn was started in as they
\* were, in the session list and, when another session is the active one,
\* in the message store.
C10_OtherSessionsUntouched ==
    [][\A i \in DOMAIN calls :
          AnswerOf(i) =>
            /\ \A k \in DOMAIN sessions :
                  sessions[k].id # calls[i].session =>
                      /\ k \in DOMAIN sessions'
                      /\ sessions'[k].id = sessions[k].id
                      /\ sessions'[k].messages = sessions[k].messages
            /\ currentSessionId # calls[i].session => messages' = messages
      ]_vars

-----------------------------------------------------------------------------
(* C7 *)

\* the message of the last position of a log
Last(log) == log[Len(log)]

\* the text any failure outside the three classes is shown with
GenericText(d) == ErrorPrefix \o (IF d = <<>> THEN UnknownErrorText ELSE d)

\* C7 as stated: the error text of a failed chat turn is the rate-limit
\* message whenever the description contains "429", the model-unavailable
\* message whenever it contains "404", the credential-missing message
\* whenever it contains "API Key", and otherwise a generic message that
\* includes the description; for every description, those of several
\* classes included.
C7_TextByClass ==
    [][\A i \in DOMAIN calls : \A d \in FailureDescriptions :
          (calls[i].fn = "streamChatResponse" /\ ProviderFailed(i, d)) =>
            LET text == Last(messages').text
            IN  /\ Includes(d, RateLimitPattern) => text = RateLimitText
                /\ Includes(d, NotFoundPattern) =>
                      text = ModelNotFoundOpen \o calls[i].model
                                \o ModelNotFoundClose
                /\ Includes(d, ApiKeyPattern) => text = ApiKeyMissingText
                /\ (/\ ~Includes(d, RateLimitPattern)
                    /\ ~Includes(d, NotFoundPattern)
                    /\ ~Includes(d, ApiKeyPattern)) =>
                      text = GenericText(d) /\ Includes(text, d)
      ]_vars

\* C7, amended: the classes are tested in the order "API Key", "404",
\* "429": the error text of a failed chat turn is the credential-missing
\* message when the description contains "API Key"; otherwise the
\* model-unavailable message when it contains "404"; otherwise the
\* rate-limit message when it contains "429"; otherwise the generic message
\* with the description (with "Unknown error" for an empty description).
C7_TextByFirstClass ==
    [][\A i \in DOMAIN calls : \A d \in FailureDescriptions :
          (calls[i].fn = "streamChatResponse" /\ ProviderFailed(i, d)) =>
            LET text == Last(messages').text
                apiKey == Includes(d, ApiKeyPattern)
                notFound == Includes(d, NotFoundPattern)
                rateLimit == Includes(d, RateLimitPattern)
            IN  /\ Last(messages').id = calls[i].msgId
                /\ Last(messages').isError
                /\ apiKey => text = ApiKeyMissingText
                /\ (~apiKey /\ notFound) =>
                      text = ModelNotFoundOpen \o calls[i].model
                                \o ModelNotFoundClose
                /\ (~apiKey /\ ~notFound /\ rateLimit) => text = RateLimitText
                /\ (~apiKey /\ ~notFound /\ ~rateLimit) =>
                      text = GenericText(d) /\ Includes(text, d)
      ]_vars

\* two chat turns have failed, the first shown with the model-unavailable
\* message, the second with the generic message of a description of two
\* parts
C7_Witness ==
    /\ Len(messages) = 4
    /\ messages[2].isError
    /\ messages[2].text = ModelNotFoundOpen \o BotModelFLASH \o ModelNotFoundClose
    /\ messages[4].isError
    /\ messages[4].text = ErrorPrefix \o <<"x", "x">>

-----------------------------------------------------------------------------
(* C8 *)

\* C8: with a provider whose streams are finite, a turn in flight eventually
\* is over (completed or failed) with the in-flight flag cleared and no call
\* outstanding, whatever sessions are created, loaded or deleted meanwhile;
\* and whenever the flag is clear, a send with non-blank text is not
\* rejected.
C8_TurnEventuallyOver ==
    /\ isStreaming ~> (~isStreaming /\ calls = <<>>)
    /\ [](~isStreaming /\ Trim(inputValue) # <<>> => ~SendRejected)

\* a turn is in flight and the session it was started in is no longer the
\* active one
C8_Witness ==
    /\ isStreaming
    /\ Len(calls) = 1
    /\ calls[1].left
    /\ currentSessionId # calls[1].session
    /\ \E k \in DOMAIN sessions : sessions[k].id = calls[1].session

-----------------------------------------------------------------------------
(* C11 *)

\* C11: the title of a session is derived at most once: a title that is no
\* longer the sentinel "New Chat" is the same after every operation (sends
\* with or without text, edits, regenerations), for every session that keeps
\* its place in the list.
C11_TitleDerivedOnce ==
    [][\A k \in DOMAIN sessions :
          (/\ k \in DOMAIN sessions'
           /\ sessions'[k].id = sessions[k].id
           /\ sessions[k].title # NewChatTitle) =>
              sessions'[k].title = sessions[k].title
      ]_vars

-----------------------------------------------------------------------------
(* C12 *)

\* the ids of a session list are pairwise distinct
DistinctSessionIds(sess) ==
    \A i, j \in DOMAIN sess : sess[i].id = sess[j].id => i = j

\* the title a session had before a step: that of the session of the same
\* id, or the sentinel when the step created it
TitleBefore(sid) ==
    IF \E j \in DOMAIN sessions : sessions[j].id = sid
    THEN sessions[FindSession(sessions, sid)].title
    ELSE NewChatTitle

\* the title the rule gives a log: the text of the first user message when
\* it has at most 30 characters, its first 30 characters and "..." when it
\* is longer, the sentinel when there is no user message
TitleByRule(log) ==
    IF \A i \in DOMAIN log : log[i].role # "user" THEN NewChatTitle
    ELSE LET first == CHOOSE i \in DOMAIN log :
                         /\ log[i].role = "user"
                         /\ \A j \in 1..(i - 1) : log[j].role # "user"
             text == log[first].text
         IN  IF Len(text) <= 30 THEN text
             ELSE [i \in 1..30 |-> text[i]] \o <<".", ".", ".">>

\* C12: after a step that changes the message log or the active session,
\* an active session whose title was the sentinel "New Chat" has the title
\* the rule gives the log: the first user message's text if it has at most
\* 30 characters, otherwise its first 30 characters followed by "...", and
\* the sentinel if the log has no user message.
C12_TitleRule ==
    [][(/\ DistinctSessionIds(sessions')
        /\ messages' # messages \/ currentSessionId' # currentSessionId) =>
          \A k \in DOMAIN sessions' :
              (/\ sessions'[k].id = currentSessionId'
               /\ TitleBefore(sessions'[k].id) = NewChatTitle) =>
                  sessions'[k].title = TitleByRule(messages')
      ]_vars

\* a session whose first user message has 31 characters is titled with its
\* first 30 characters and "...", beside a session without messages that
\* kept the sentinel
C12_Witness ==
    /\ Len(sessions) = 2
    /\ sessions[1].title = NewChatTitle
    /\ sessions[1].messages = <<>>
    /\ Len(sessions[2].messages) = 2
    /\ Len(sessions[2].messages[1].text) = 31
    /\ Len(sessions[2].title) = 33
    /\ sessions[2].title = TitleByRule(sessions[2].messages)

-----------------------------------------------------------------------------
(* C13 *)

\* regenerate has something to regenerate: no turn is in flight and the log
\* ends with a user message followed by a model message
Regenerable ==
    /\ ~isStreaming
    /\ Len(messages) >= 2
    /\ Last(messages).role = "model"
    /\ messages[Len(messages) - 1].role = "user"

\* C13: regenerate on a log that ends in a model message, with no turn in
\* flight, removes exactly that message, leaves every earlier message as it
\* was and appends one streaming placeholder; for a chat turn the provider
\* is called with the stored text and image of the preceding user message
\* and with exactly the messages before that user message as history.
C13_RegenerateResends ==
    [][(Regenerable /\ HandleRegenerate) =>
          LET n == Len(messages)
              user == messages[n - 1]
              call == Last(calls')
          IN  /\ Len(messages') = n
              /\ \A i \in 1..(n - 1) : messages'[i] = messages[i]
              /\ messages'[n].role = "model"
              /\ messages'[n].isStreaming
              /\ ~messages'[n].isError
              /\ Len(calls') = Len(calls) + 1
              /\ call.msgId = messages'[n].id
              /\ ~StartsWith(user.text, GenerateImagePrefix) =>
                    /\ call.fn = "streamChatResponse"
                    /\ call.text = user.text
                    /\ call.image = user.image
                    /\ call.history = [i \in 1..(n - 2) |-> messages[i]]
      ]_vars

\* a chat turn is regenerated on a log of four messages: the call carries
\* the text of the third message and the first two messages as history
C13_Witness ==
    /\ Len(calls) = 1
    /\ calls[1].handler = "handleRegenerate"
    /\ calls[1].fn = "streamChatResponse"
    /\ Len(messages) = 4
    /\ calls[1].text = messages[3].text
    /\ calls[1].history = StoredConversation
    /\ calls[1].history[1].image # Null
    /\ messages[4].isStreaming

-----------------------------------------------------------------------------
(* C14 *)

\* a log is made of turns: a user message, then a model message, and so on
Alternates(log) ==
    \A i \in DOMAIN log : log[i].role = (IF i % 2 = 1 THEN "user" ELSE "model")

-----------------------------------------------------------------------------
(* C15 *)

\* a text without its leading "Generate image:" and the blanks around what
\* follows it
WithoutPrefix(text) ==
    IF Len(text) >= Len(GenerateImagePrefix)
       /\ \A i \in DOMAIN GenerateImagePrefix : text[i] = GenerateImagePrefix[i]
    THEN Trim([i \in 1..(Len(text) - Len(GenerateImagePrefix)) |->
                  text[i + Len(GenerateImagePrefix)]])
    ELSE text

\* C15: editing the user message at a position of the log, with no turn in
\* flight, leaves exactly the messages before it, unchanged, and stages its
\* text without a leading "Generate image:" as the input; on a model message
\* or while a turn is in flight neither the log nor the staged input
\* changes.
C15_EditRewinds ==
    [][\A index \in DOMAIN messages :
          HandleEditMessage(index) =>
            IF ~isStreaming /\ messages[index].role = "user"
            THEN /\ messages' = [i \in 1..(index - 1) |-> messages[i]]
                 /\ inputValue' = WithoutPrefix(messages[index].text)
            ELSE UNCHANGED <<messages, inputValue>>
      ]_vars

\* the only message of the new session, a request for an image that titled
\* the session, has been edited: the log is empty and the prompt is staged
C15_Witness ==
    /\ currentSessionId = 3
    /\ started = 1
    /\ messages = <<>>
    /\ ~isStreaming
    /\ sessions[1].title = GenerateImagePrefix \o <<" ", "h", "i">>
    /\ inputValue = <<"h", "i">>

-----------------------------------------------------------------------------
(* C16 *)

\* C16: the session list in memory after a restart equals the persisted
\* one: the same sessions in the same number, each with the same id, title,
\* messages and updatedAt.
C16_RoundTrip ==
    [][Restart =>
          /\ Len(sessions') = Len(LoadSessions(storage))
          /\ \A i \in DOMAIN sessions' :
                sessions'[i] = LoadSessions(storage)[i]
      ]_vars

-----------------------------------------------------------------------------
(* C17 *)

\* C17: a restart creates a session only if no session is persisted: when
\* the store holds at least one session, the list after the restart is as
\* long as the persisted one, so restarts do not grow the list.
C17_NoSessionOnRestart ==
    [][(Restart /\ Len(LoadSessions(storage)) >= 1) =>
          Len(sessions') = Len(LoadSessions(storage))
      ]_vars

-----------------------------------------------------------------------------
(* C18 *)

\* C18: a restart over a store whose entry is missing, unparsable or
\* otherwise not a session list completes with exactly one session, fresh
\* (sentinel title, empty log) and active, and an empty message log.
C18_BadBlobIsEmptyList ==
    [][(Restart /\ storage.kind # "json") =>
          /\ Len(sessions') = 1
          /\ sessions'[1].title = NewChatTitle
          /\ sessions'[1].messages = <<>>
          /\ currentSessionId' = sessions'[1].id
          /\ Mounted'
          /\ messages' = <<>>
      ]_vars

-----------------------------------------------------------------------------
(* C19 *)

\* the positions of the active session in the list
ActiveSessions(sess, cur) == {k \in DOMAIN sess : sess[k].id = cur}

\* C19: after every step that changes the message log, the synced session
\* list holds the log as the messages of the active session, and that step
\* changed the title and the messages of no other session: every session
\* other than the one at the active session's place is as it was.
C19_SyncMirrorsActiveOnly ==
    [][(messages' # messages /\ Len(sessions') = Len(sessions)) =>
          \E a \in ActiveSessions(sessions', currentSessionId') :
              /\ sessions'[a].messages = messages'
              /\ \A k \in DOMAIN sessions' \ {a} :
                    /\ sessions'[k].title = sessions[k].title
                    /\ sessions'[k].messages = sessions[k].messages
      ]_vars

-----------------------------------------------------------------------------
(* C20 *)

\* C20: in every state exactly one session is active: the active session
\* id is set and exactly one session of the list has it.
C20_ExactlyOneActive ==
    /\ Mounted
    /\ Cardinality(ActiveSessions(sessions, currentSessionId)) = 1

-----------------------------------------------------------------------------
(* C21 *)

\* the session list an earlier run of the program left in localStorage: an
\* empty session created at time 2 in front of the session of time 1
StoredList ==
    <<[id |-> 2, title |-> NewChatTitle, messages |-> <<>>, updatedAt |-> 2],
      StoredSession>>

\* the state after mount, at time 3, over that list: three sessions
InitListed ==
    /\ now = 3
    /\ messages = <<>>
    /\ sessions = MountSessions(JSONBlob(StoredList), 3)
    /\ currentSessionId = 3
    /\ inputValue = <<>>
    /\ selectedImage = Null
    /\ imagePreview = Null
    /\ selectedTextFile = <<>>
    /\ isStreaming = FALSE
    /\ config = DefaultConfig
    /\ storage = SaveEffect(MountSessions(JSONBlob(StoredList), 3),
                            JSONBlob(StoredList))
    /\ calls = <<>>
    /\ encodings = <<>>
    /\ created = 1
    /\ started = 0

\* The session list of a restored program: sessions are loaded, deleted and
\* created, and messages are sent in them.
NextListed ==
    \/ \E t \in PlainTexts : TypeInput(t)
    \/ CreateNewSession
    \/ \E sid \in SessionIds : LoadSession(sid)
    \/ \E sid \in SessionIds : DeleteSession(sid)
    \/ HandleSendMessage
    \/ \E i \in DOMAIN calls : StreamEnd(i)

SpecListed == InitListed /\ [][NextListed]_vars

\* the sessions of a list that no other session of it is more recent than
MostRecent(sess) ==
    {i \in DOMAIN sess :
        \A k \in DOMAIN sess : sess[k].updatedAt <= sess[i].updatedAt}

\* C21: deleting the active session removes its entry and makes the most
\* recent remaining session (greatest updatedAt) active, with its stored log
\* in the message store, or creates a session when none remains; deleting
\* another session leaves the active id and the message store as they are.
C21_DeleteSelectsMostRecent ==
    [][\A sid \in SessionIds :
          DeleteSession(sid) =>
              LET rest == FilterOut(sessions, sid)
              IN  /\ \A i \in DOMAIN sessions' : sessions'[i].id # sid
                        \/ (rest = <<>> /\ sid = now)
                  /\ sid # currentSessionId =>
                        /\ currentSessionId' = currentSessionId
                        /\ messages' = messages
                  /\ (sid = currentSessionId /\ rest # <<>>) =>
                        \E r \in MostRecent(rest) :
                            /\ currentSessionId' = rest[r].id
                            /\ messages' = rest[r].messages
                  /\ (sid = currentSessionId /\ rest = <<>>) =>
                        /\ Len(sessions') = 1
                        /\ sessions'[1].messages = <<>>
                        /\ currentSessionId' = sessions'[1].id
                        /\ messages' = <<>>
      ]_vars

-----------------------------------------------------------------------------
(* C22 *)

\* C22: loadSession with an id that is not in the session list changes no
\* state; with a known id it makes that session active and the message store
\* equal to the log stored for that session.
C22_LoadSession ==
    [][\A sid \in SessionIds :
          LoadSession(sid) =>
              IF \A i \in DOMAIN sessions : sessions[i].id # sid
              THEN UNCHANGED vars
              ELSE /\ currentSessionId' = sid
                   /\ \E i \in DOMAIN sessions :
                         /\ sessions[i].id = sid
                         /\ messages' = sessions[i].messages
                   /\ \A i \in DOMAIN sessions' :
                         sessions'[i].id = sid =>
                             sessions'[i].messages = messages'
      ]_vars

\* a session that is not the newest one has been loaded and its stored
\* conversation is in the message store
C22_Witness ==
    /\ Len(sessions) = 2
    /\ sessions[1].id # sessions[2].id
    /\ currentSessionId = sessions[2].id
    /\ messages # <<>>
    /\ messages = sessions[2].messages
    /\ sessions[1].messages = <<>>

-----------------------------------------------------------------------------
(* C23 *)

\* C23: createNewSession puts a session with an empty log and the title
\* "New Chat" at the front of the session list, makes it active and empties
\* the message store, and every session that existed before keeps its id,
\* its title, its messages and its place after the new one.
C23_CreatePrepends ==
    [][CreateNewSession =>
          /\ Len(sessions') = Len(sessions) + 1
          /\ sessions'[1].messages = <<>>
          /\ sessions'[1].title = NewChatTitle
          /\ currentSessionId' = sessions'[1].id
          /\ messages' = <<>>
          /\ \A i \in DOMAIN sessions :
                /\ sessions'[i + 1].id = sessions[i].id
                /\ sessions'[i + 1].title = sessions[i].title
                /\ sessions'[i + 1].messages = sessions[i].messages
      ]_vars

-----------------------------------------------------------------------------
(* C24 *)

\* the ids the model menu offers (lines 637-641)
ModelIds == {BotModelFLASH, BotModelPRO, BotModelLITE}

\* a click on an entry of the model menu: setConfig({ ...config, model })
SelectModel(m) ==
    /\ config.model # m
    /\ config' = [config EXCEPT !.model = m]
    /\ UNCHANGED <<messages, sessions, currentSessionId, inputValue,
                   selectedImage, imagePreview, selectedTextFile, isStreaming,
                   now, storage, calls, encodings, created, started>>

\* a click on the thinking switch: setConfig(p => ({...p, useThinking:
\* !p.useThinking}))
ToggleThinking ==
    /\ config' = [config EXCEPT !.useThinking = ~config.useThinking]
    /\ UNCHANGED <<messages, sessions, currentSessionId, inputValue,
                   selectedImage, imagePreview, selectedTextFile, isStreaming,
                   now, storage, calls, encodings, created, started>>

\* Chat turns under every configuration: the model is selected, the thinking
\* switch is flipped, messages are sent and regenerated.
NextConfig ==
    \/ \E t \in PlainTexts : TypeInput(t)
    \/ \E m \in ModelIds : SelectModel(m)
    \/ ToggleThinking
    \/ HandleSendMessage
    \/ HandleRegenerate
    \/ \E i \in DOMAIN calls : StreamEnd(i)

SpecConfig == Init /\ [][NextConfig]_vars

\* the id belongs to the family the thinking budget is supported for
SupportsThinking(model) ==
    \E k \in 0..(Len(model) - 10) :
        SubSeq(model, k + 1, k + 10) =
            <<"g", "e", "m", "i", "n", "i", "-", "2", ".", "5">>

\* C24: a chat call carries the thinking budget if and only if the thinking
\* toggle is enabled and the configured model id contains "gemini-2.5"; for
\* every other combination its options hold no thinking budget at all.
C24_ThinkingBudgetGated ==
    [][Len(calls') > Len(calls) =>
          LET call == calls'[Len(calls')]
              budgets == {o \in call.generationConfig :
                             o[1] = "thinkingBudget"}
          IN  /\ call.fn = "streamChatResponse"
              /\ call.model = config.model
              /\ IF config.useThinking /\ SupportsThinking(config.model)
                 THEN call.generationConfig =
                          {<<"thinkingBudget", ThinkingBudget>>}
                 ELSE budgets = {}
      ]_vars

\* a turn on the second model of the family, started with the toggle
\* enabled, carries the budget, after a first turn that went without it
C24_Witness ==
    /\ Len(calls) = 1
    /\ calls[1].model = BotModelPRO
    /\ calls[1].generationConfig = {<<"thinkingBudget", ThinkingBudget>>}
    /\ Len(calls[1].history) = 2
    /\ config.useThinking

-----------------------------------------------------------------------------
(* C25 *)

\* the text ends with the attached-file block of the file: its name and its
\* whole content
EndsWithFile(text, file) ==
    LET block == AttachedFileOpen \o file.name \o AttachedFileClose
                    \o file.content
    IN  /\ Len(text) >= Len(block)
        /\ SubSeq(text, Len(text) - Len(block) + 1, Len(text)) = block

\* C25: for every accepted send, the text of the appended user message is
\* the text passed to the provider (with the attached file's name and whole
\* content when a file is attached), and the history passed to the provider
\* is the message log as it was before the user message was appended.
C25_StoredTextIsSentText ==
    [][(HandleSendMessage /\ ~SendRejected) =>
          LET call == calls'[Len(calls')]
              user == messages'[Len(messages) + 1]
          IN  /\ Len(calls') = Len(calls) + 1
              /\ Len(messages') = Len(messages) + 2
              /\ SubSeq(messages', 1, Len(messages)) = messages
              /\ user.role = "user"
              /\ user.text = call.text
              /\ call.history = messages
              /\ selectedTextFile # <<>> =>
                    EndsWithFile(user.text, selectedTextFile[1])
              /\ \A i \in ActiveSessions(sessions', currentSessionId') :
                    sessions'[i].messages = messages'
      ]_vars

\* a second turn was sent with the file attached and no typed text: the log
\* holds the full form, the call has it and the first turn as history
C25_Witness ==
    /\ Len(messages) = 4
    /\ Len(calls) = 1
    /\ calls[1].handler = "handleSendMessage"
    /\ calls[1].history = SubSeq(messages, 1, 2)
    /\ calls[1].text = messages[3].text
    /\ \E f \in TextFiles :
          messages[3].text =
              AttachedFileOpen \o f.name \o AttachedFileClose \o f.content

-----------------------------------------------------------------------------
(* C26 *)

\* C26: the durable store follows the session list: once the save effect of
\* a change has run (it runs within the step that changes the list, removals
\* included), the stored list is the list in memory; no change is skipped.
C26_StoreFollowsList ==
    /\ storage.kind = "json"
    /\ storage = JSONBlob(sessions)
    /\ FromJSON(storage.value) = sessions

\* a session was deleted and the store holds the list of the one that is
\* left, with its conversation
C26_Witness ==
    /\ created = 2
    /\ Len(sessions) = 1
    /\ sessions[1].messages # <<>>
    /\ storage = JSONBlob(sessions)

-----------------------------------------------------------------------------
(* C27 *)

\* C27: a failure in the middle of a stream does not lose the partial text:
\* after the turn has failed, the text accumulated from the chunks delivered
\* before the failure is still in the log (in the text of one of its
\* messages, in the message store or in the stored log of the session).
C27_PartialTextKept ==
    [][\A i \in DOMAIN calls, e \in ErrorMessages :
          (/\ ProviderFailed(i, e)
           /\ calls[i].fn = "streamChatResponse"
           /\ calls[i].fullText # <<>>
           /\ \E k \in DOMAIN messages : messages[k].id = calls[i].msgId) =>
              \/ \E k \in DOMAIN messages' :
                    Includes(messages'[k].text, calls[i].fullText)
              \/ \E log \in LogsOf(sessions', calls[i].session) :
                    \E k \in DOMAIN log :
                        Includes(log[k].text, calls[i].fullText)
      ]_vars

-----------------------------------------------------------------------------
(* C28 *)

\* C28: the in-flight gate is scoped to the session: a send with non-empty
\* text is rejected only when a turn is in flight for the active session, so
\* in a session that has no turn in flight (no call started in it is
\* outstanding, no message of its log is streaming) the send is accepted.
C28_GateIsSessionScoped ==
    (/\ Mounted
     /\ Trim(inputValue) # <<>>
     /\ \A i \in DOMAIN calls : calls[i].session # currentSessionId
     /\ \A k \in DOMAIN messages : ~messages[k].isStreaming)
        => ~SendRejected

-----------------------------------------------------------------------------
(* C29 *)

\* C29: a failure while an attachment is ingested leaves that attachment
\* unset: after the encoding of an image has failed, no part of the staged
\* attachment state holds it, in particular the image is not marked as
\* selected.
C29_FailedImageIsUnset ==
    [][\A i \in DOMAIN encodings :
          ImageEncodingFailed(i) =>
              /\ selectedImage' # encodings[i]
              /\ imagePreview' # Base64Of(encodings[i])
      ]_vars

-----------------------------------------------------------------------------
(* C30 *)

\* C30: message ids are unique within a log: with ids taken from a clock
\* that does not go back and may give the same reading twice (user id = now,
\* placeholder id = now + 1), no sequence of sends, image generations and
\* regenerations puts two messages with the same id into one log, in the
\* message store or in a stored log.
C30_IdsUniqueInLog ==
    \A log \in {messages} \cup StoredLogs :
        \A i, j \in DOMAIN log : log[i].id = log[j].id => i = j

-----------------------------------------------------------------------------
(* C31 *)

\* the logs the durable store holds
PersistedLogs ==
    IF storage.kind = "json"
    THEN {storage.value[i].messages : i \in DOMAIN storage.value}
    ELSE {}

\* C31: a message with isStreaming = true exists only while a turn is in
\* flight: whenever the in-flight flag is clear, no message of the message
\* store, of a session's stored log or of a log in the durable store has
\* isStreaming = true.
C31_StreamingOnlyInFlight ==
    ~isStreaming =>
        \A log \in {messages} \cup StoredLogs \cup PersistedLogs :
            \A k \in DOMAIN log : ~log[k].isStreaming

-----------------------------------------------------------------------------
(* C32 *)

\* C32: every user message an accepted send appends carries content, a text
\* that is not empty or an image, and its image is the one staged at the
\* send (the encoding of the selected file, none when no file is selected),
\* whatever the order of image selection, encoding, clearing and send.
C32_UserMessageHasContent ==
    [][(HandleSendMessage /\ ~SendRejected) =>
          LET user == messages'[Len(messages) + 1]
          IN  /\ user.text # <<>> \/ user.image # Null
              /\ user.image = IF selectedImage = Null THEN Null
                              ELSE Base64Of(selectedImage)
      ]_vars

-----------------------------------------------------------------------------
(* C33 *)

\* what the user types as a chat message: a plain text, and a text that
\* starts like the request message of an image generation
ChatTexts == {<<"h", "i">>, GenerateImagePrefix \o <<" ", "h", "i">>}

\* Chat turns only: every response in the log came from handleSendMessage.
NextChat ==
    \/ \E t \in ChatTexts : TypeInput(t)
    \/ HandleSendMessage
    \/ HandleRegenerate
    \/ ProviderStep

SpecChat == Init /\ [][NextChat]_vars

\* C33: regenerate runs the pipeline that produced the response it
\* regenerates: where every response came from a send, whatever its text,
\* every call regenerate makes is a streamed chat call.
C33_RegenerateSamePipeline ==
    \A i \in DOMAIN calls :
        calls[i].handler = "handleRegenerate" =>
            calls[i].fn = "streamChatResponse"

-----------------------------------------------------------------------------
(* C34 *)

\* what the user types as an image prompt: a blank text, a text with blanks
\* around it, a text with a blank inside, and one that itself starts with
\* the prefix of a request message
PromptTexts ==
    {<<" ">>, <<" ", "h", "i", " ">>, <<"a", " ", "b">>,
     GenerateImagePrefix \o <<" ", "h", "i">>}

\* the prompts handleGenerateImage can pass on: the trimmed, non-blank texts
Prompts == {Trim(t) : t \in PromptTexts} \ {<<>>}

\* text of the request message recorded for a prompt (line 353)
RequestText(prompt) == GenerateImagePrefix \o <<" ">> \o prompt

\* Image turns only: every user message in the log is the request message
\* of an image generation.
NextImages ==
    \/ \E t \in PromptTexts : TypeInput(t)
    \/ HandleGenerateImage
    \/ HandleRegenerate
    \/ \E k \in DOMAIN messages : HandleEditMessage(k)
    \/ \E i \in DOMAIN calls, g \in GeneratedImages : ImageGenerated(i, g)
    \/ \E i \in DOMAIN calls, e \in ErrorMessages : ProviderFailed(i, e)

SpecImages == Init /\ [][NextImages]_vars

\* C34: the image prompt round-trips through the log: handleGenerateImage
\* passes the trimmed input to the image generation and records it in the
\* request message; regenerate passes that same prompt to the image
\* generation, and editing the request message stages that same prompt.
C34_PromptRoundTrip ==
    [][/\ (HandleGenerateImage /\ ~GenerateRejected) =>
              /\ Trim(inputValue) \in Prompts
              /\ calls'[Len(calls')].fn = "generateImageFromPrompt"
              /\ calls'[Len(calls')].prompt = Trim(inputValue)
              /\ messages'[Len(messages) + 1].text =
                     RequestText(Trim(inputValue))
       /\ (HandleRegenerate /\ Len(calls') > Len(calls)) =>
              \E p \in Prompts :
                  /\ messages[Len(messages) - 1].text = RequestText(p)
                  /\ calls'[Len(calls')].fn = "generateImageFromPrompt"
                  /\ calls'[Len(calls')].prompt = p
       /\ \A k \in DOMAIN messages :
              (HandleEditMessage(k) /\ ~isStreaming
                  /\ messages[k].role = "user") =>
                  \E p \in Prompts :
                      /\ messages[k].text = RequestText(p)
                      /\ inputValue' = p
      ]_vars

\* the answer to a prompt that itself starts with the prefix is being
\* regenerated: the image generation was called with the whole prompt
C34_Witness ==
    /\ Len(calls) = 1
    /\ calls[1].handler = "handleRegenerate"
    /\ calls[1].fn = "generateImageFromPrompt"
    /\ calls[1].prompt = GenerateImagePrefix \o <<" ", "h", "i">>
    /\ messages[1].text = RequestText(calls[1].prompt)

====
